---- MODULE Spec2Model ----
(***************************************************************************)
(* State-machine model of the OpenJuris scraper: the scrape-job tracker    *)
(* and its background tasks (api/routers/scraper.py), the crawl loop       *)
(* (scrapers/base.py, scrapers/lawphil/scraper.py), the HTTP client's      *)
(* retry loop (utils/http_client.py) and document embedding                *)
(* (api/routers/embedding.py, services/embed.py).                          *)
(*                                                                         *)
(* Every coroutine is cut at its awaits on the database or the network:    *)
(* one action is the code between two suspension points, run inside the    *)
(* database transaction the code opens for it.                             *)
(***************************************************************************)
EXTENDS Integers, Sequences, FiniteSets, TLC

VARIABLES
    jobs,         \* table scrape_jobs: sequence of rows, a row's id is its index
    documents,    \* table documents: sequence of rows, a row's id is its index
    parts,        \* table document_parts: the rows, each with its document's id
    tasks,        \* BackgroundTasks: the _scrape_document_task calls not yet returned
    taskLog,      \* what the last returned _scrape_document_task did
    requests,     \* POST /scraper/scrape and POST /scraper/retry-failed requests
    web,          \* what the remote site answers for each URL during a crawl
    crawl,        \* the _crawl_source_task / BaseScraper.run coroutine
    fetch,        \* one HttpClient.get_bytes call
    clients,      \* the get_bytes calls of the tasks that run at the same time
    chunker,      \* one TextChunker.chunk_text call: its text, settings and chunks
    parser,       \* one LawphilStatuteParser and the parse it is running
    vectorStore,  \* table document_vectors with its embeddings, and the last call on it
    vectors,      \* table document_vectors (committed rows), per document
    embedReqs,    \* POST /embeddings/document requests
    writer        \* the request whose transaction holds the database write lock

vars == <<jobs, documents, parts, tasks, taskLog, requests, web, crawl, fetch, clients,
          chunker, parser, vectorStore, vectors, embedReqs, writer>>

crawlVars == <<web, crawl>>
embedVars == <<vectors, embedReqs, writer>>

(***************************************************************************)
(* Bounds of the model.                                                    *)
(***************************************************************************)
MaxRequests == 3
MaxRetries == 4
MaxEmbedRequests == 2
MaxClients == 3
MaxTextLen == 8
MaxElements == 4
MaxParses == 2
MaxRows == 3

(***************************************************************************)
(* Enumerations and fixed data.                                            *)
(***************************************************************************)
PENDING     == "PENDING"
IN_PROGRESS == "IN_PROGRESS"
COMPLETED   == "COMPLETED"
FAILED      == "FAILED"
ScraperStatus == {PENDING, IN_PROGRESS, COMPLETED, FAILED}

LAWPHIL     == "The Lawphil Project"
SC_ELIBRARY == "Supreme Court E-Library"
SourceName  == {LAWPHIL, SC_ELIBRARY}

\* seed_sources inserts LAWPHIL only; the other sources are commented out.
SeededSources == {LAWPHIL}

ACT             == "Act"
REPUBLIC_ACT    == "Republic Act"
EXECUTIVE_ORDER == "Executive Order"
DocumentType    == {ACT, REPUBLIC_ACT, EXECUTIVE_ORDER}

None == "None"

\* URLs a client asks to scrape: one under /statutes/, one that is not.
StatuteUrl == "https://lawphil.net/statutes/repacts/ra1.html"
OtherUrl   == "https://lawphil.net/executive/execord/eo1.html"
ScrapeUrls == {StatuteUrl, OtherUrl}

\* The pages a crawl meets: the index pages of three document types and the
\* pages they link to.
IndexACT == "https://lawphil.net//statutes/acts/acts.html"
IndexRA == "https://lawphil.net//statutes/repacts/repacts.html"
IndexEO == "https://lawphil.net//executive/execord/execord.html"
Ra2Url  == "https://lawphil.net/statutes/repacts/ra2.html"
Ra3Url  == "https://lawphil.net/statutes/repacts/ra3.html"
PdfUrl  == "https://lawphil.net/statutes/repacts/ra4.pdf"
ExternalUrl == "https://www.officialgazette.gov.ph/acts/act1.html"

\* The URL lies under the source's base URL, SourceBaseURL.LAWPHIL.
InDomain(u) == u # ExternalUrl

\* `"/statutes/" in doc_url`
IsStatuteUrl(u) == u \in {StatuteUrl, Ra2Url, Ra3Url, PdfUrl, IndexRA, IndexACT}

\* `".pdf" in statute`
IsPdfUrl(u) == u \in {PdfUrl}

\* The citation LawphilStatuteParser.parse finds on a page that has one.
CitationOf(u) == <<"Republic Act No.", u>>

(***************************************************************************)
(* ScrapeJob rows and the repository helpers.                              *)
(***************************************************************************)
ScrapeJob(source_id, url, status, document_id) ==
    [source_id |-> source_id, url |-> url, status |-> status,
     document_id |-> document_id, error_message |-> None, retry_count |-> 0]

mark_completed(job, document_id) ==
    [job EXCEPT !.status = COMPLETED, !.document_id = document_id]

mark_failed(job, error_message) ==
    [job EXCEPT !.status = FAILED, !.error_message = error_message,
                !.retry_count = @ + 1]

\* ScrapeJobRepository.get_by_url: the ids of the rows with that URL.
JobsByUrl(url) == {j \in DOMAIN jobs : jobs[j].url = url}

\* ScrapeJobRepository.get_failed_jobs
FailedJobs == {j \in DOMAIN jobs : jobs[j].status = FAILED}

\* DocumentRepository.get_by_url
DocsByUrl(url) == {d \in DOMAIN documents : documents[d].source_url = url}

\* Field(unique=True) on ScrapeJob.url: the INSERT of a second row fails.
JobUrlUnique(url) == JobsByUrl(url) = {}

\* Field(unique=True) on Document.canonical_citation.
CitationUnique(c) ==
    \A d \in DOMAIN documents : documents[d].canonical_citation # c

Document(scraped_doc) ==
    [source_url |-> scraped_doc.source_url,
     canonical_citation |-> scraped_doc.canonical_citation]

\* The sort orders of the parts the parser finds on a page.
PartsOf(doc_url) == IF doc_url = StatuteUrl THEN 1..2 ELSE 1..1

\* _build_document_parts: the rows of a document's parts.
DocumentParts(scraped_parts, document_id) ==
    {[document_id |-> document_id, sort_order |-> o] : o \in scraped_parts}

\* A store that keeps what was flushed before the failure: the document
\* row stays without its parts.
save_document_partial(scraped_doc, persist) ==
    IF persist = "ok"
    THEN [ok |-> TRUE,
          documents |-> Append(documents, Document(scraped_doc)),
          parts |-> parts \cup DocumentParts(scraped_doc.parts, Len(documents) + 1)]
    ELSE [ok |-> FALSE,
          documents |-> Append(documents, Document(scraped_doc)),
          parts |-> parts]

\* _save_document inside the caller's transaction: the document row and its
\* part rows are written together; when a statement of the transaction
\* fails, db.session rolls all of it back.
save_document(scraped_doc, persist) ==
    IF persist = "ok"
    THEN [ok |-> TRUE,
          documents |-> Append(documents, Document(scraped_doc)),
          parts |-> parts \cup DocumentParts(scraped_doc.parts, Len(documents) + 1)]
    ELSE [ok |-> FALSE, documents |-> documents, parts |-> parts]

(***************************************************************************)
(* LawphilScraper.scrape_document: the fetch, then the parse of a statute  *)
(* page.  fetched and parsed are what the network and the page give.       *)
(***************************************************************************)
FetchErrorText == "HTTPStatusError"
ParseNoneText  == "'NoneType' object has no attribute 'metadata_fields'"
ParseFailText  == "Failed to parse document"
IntegrityText  == "An error occured in the database: IntegrityError"

SourceNotFoundText(source) == <<"Source not found", source>>

Raised(text)   == [kind |-> "exception", error |-> text]
ReturnedNone   == [kind |-> "none"]
Returned(doc)  == [kind |-> "document", doc |-> doc]

scrape_document(doc_url, fetched, parsed) ==
    IF fetched # "ok" THEN Raised(FetchErrorText)
    ELSE IF IsStatuteUrl(doc_url)
         THEN IF parsed = "document"
              THEN Returned([source_url |-> doc_url,
                             canonical_citation |-> CitationOf(doc_url),
                             parts |-> PartsOf(doc_url)])
              ELSE Raised(ParseNoneText)
         ELSE ReturnedNone

(***************************************************************************)
(* POST /scraper/scrape                                                    *)
(***************************************************************************)
\* The answer of a request: the HTTP status, the job id and the job status
\* of a ScrapeJobResponse and the "queued" count of retry-failed.
Response(status, job_id, queued) ==
    [status |-> status, job_id |-> job_id, queued |-> queued, job_status |-> None]
NoResponse == Response(0, 0, 0)
HTTP400    == Response(400, 0, 0)
HTTP500    == Response(500, 0, 0)
JobResponse(job_id, job_status) ==
    [Response(200, job_id, 0) EXCEPT !.job_status = job_status]

IdleRequest ==
    [pc |-> "idle", url |-> None, doc_type |-> None, source |-> None,
     failed_jobs |-> {}, response |-> NoResponse]

\* What clients ask for: a URL, the document type of that page, a source.
ScrapeRequest ==
    {[url |-> StatuteUrl, doc_type |-> REPUBLIC_ACT, source |-> LAWPHIL],
     [url |-> OtherUrl, doc_type |-> EXECUTIVE_ORDER, source |-> LAWPHIL],
     [url |-> OtherUrl, doc_type |-> EXECUTIVE_ORDER, source |-> SC_ELIBRARY]}

Task(job_id, url, doc_type, source) ==
    [job_id |-> job_id, url |-> url, doc_type |-> doc_type, source |-> source,
     pc |-> "queued"]

\* BackgroundTasks drops a task that has returned.
RemoveAt(seq, i) == SubSeq(seq, 1, i - 1) \o SubSeq(seq, i + 1, Len(seq))

\* The request once get_by_url has found no job: it goes on to create one.
scrape_document_missing(request, existing) ==
    [pc |-> "checked", url |-> request.url,
     doc_type |-> request.doc_type, source |-> request.source,
     failed_jobs |-> {}, response |-> NoResponse]

\* A lookup that does not return the job it found.
scrape_document_not_returned(request, existing) ==
    scrape_document_missing(request, existing)

\* Lines 376-378: the request once get_by_url has found a job: the job is
\* returned as it is.
scrape_document_existing(request, existing) ==
    [pc |-> "done", url |-> request.url, doc_type |-> None,
     source |-> None, failed_jobs |-> {},
     response |-> JobResponse(existing, jobs[existing].status)]

\* Lines 371-378: the lookup by URL.
scrape_document_lookup(r, request) ==
    /\ requests[r].pc = "idle"
    /\ \A q \in 1..(r - 1) : requests[q].pc # "idle"
    /\ LET existing == JobsByUrl(request.url) IN
       IF existing # {}
       THEN requests' = [requests EXCEPT ![r] =
                scrape_document_existing(request, CHOOSE j \in existing : TRUE)]
       ELSE requests' = [requests EXCEPT ![r] =
                scrape_document_missing(request, existing)]
    /\ UNCHANGED <<jobs, documents, parts, tasks, taskLog, crawlVars, fetch, clients, chunker, parser, vectorStore, embedVars>>

\* The request once it has answered.
Answered(req, response) ==
    [pc |-> "done", url |-> req.url, doc_type |-> None, source |-> None,
     failed_jobs |-> {}, response |-> response]

\* Lines 380-410: the source check, the INSERT and commit, the queued task.
scrape_document_create(r) ==
    /\ requests[r].pc = "checked"
    /\ LET req == requests[r] IN
       IF req.source \notin SeededSources
       THEN /\ requests' = [requests EXCEPT ![r] = Answered(req, HTTP400)]
            /\ UNCHANGED <<jobs, tasks>>
       ELSE IF ~JobUrlUnique(req.url)
       THEN \* IntegrityError at the flush; db.session rolls back and raises
            /\ requests' = [requests EXCEPT ![r] = Answered(req, HTTP500)]
            /\ UNCHANGED <<jobs, tasks>>
       ELSE /\ jobs' = Append(jobs, ScrapeJob(req.source, req.url, PENDING, None))
            /\ tasks' = Append(tasks, Task(Len(jobs) + 1, req.url, req.doc_type,
                                           req.source))
            /\ requests' = [requests EXCEPT ![r] = Answered(req, JobResponse(Len(jobs) + 1, PENDING))]
    /\ UNCHANGED <<documents, parts, taskLog, crawlVars, fetch, clients, chunker, parser, vectorStore, embedVars>>

(***************************************************************************)
(* _scrape_document_task, the background task of one job.                  *)
(***************************************************************************)
SetJob(j, row) == [jobs EXCEPT ![j] = row]

\* What the last task that returned did: the job it ran for, the outcome of
\* its scrape and whether an exception left the task.
NoTaskLog == [job_id |-> 0, result |-> [kind |-> "nothing"], raised |-> FALSE]
Saved     == [kind |-> "document"]
NoSource  == [kind |-> "no source"]
TaskLog(job_id, result, raised) ==
    [job_id |-> job_id, result |-> result, raised |-> raised]

\* Lines 238-246: a task that got past step 1 has called
\* scraper.scrape_document, whose first statement fetches the URL.
TaskFetched(log) == log.job_id # 0 /\ log.result # NoSource

\* A task without the handler: the exception leaves the task and the job
\* stays as step 1 left it.
task_except_unhandled(job, e) == [job |-> job, raised |-> TRUE]

\* Lines 283-295: the handler of `except Exception`: the job is marked
\* FAILED with str(e) and nothing is raised to the caller.
task_except(job, e) == [job |-> mark_failed(job, e), raised |-> FALSE]

\* Lines 248-256: scrape_document returned no document.
task_no_document(job) == [job |-> mark_failed(job, ParseFailText), raised |-> FALSE]

\* Lines 214-236, step 1: the job is loaded, the source is looked up and the
\* job is set IN_PROGRESS; a source that is not in the database fails the job.
scrape_document_task_start(t) ==
    /\ tasks[t].pc = "queued"
    /\ LET job == jobs[tasks[t].job_id] IN
       IF tasks[t].source \notin SeededSources
       THEN /\ jobs' = SetJob(tasks[t].job_id,
                              mark_failed(job, SourceNotFoundText(tasks[t].source)))
            /\ tasks' = RemoveAt(tasks, t)
            /\ taskLog' = TaskLog(tasks[t].job_id, NoSource, FALSE)
       ELSE /\ jobs' = SetJob(tasks[t].job_id, [job EXCEPT !.status = IN_PROGRESS])
            /\ tasks' = [tasks EXCEPT ![t].pc = "in_progress"]
            /\ UNCHANGED taskLog
    /\ UNCHANGED <<documents, parts, requests, crawlVars, fetch, clients, chunker, parser, vectorStore, embedVars>>

\* Lines 238-295, steps 2 and 3: the fetch and the parse, outside any
\* transaction, then the outcome recorded on the job; a document is saved
\* with the job's COMPLETED status in one transaction.
scrape_document_task_finish(t, fetched, parsed, persist) ==
    /\ tasks[t].pc = "in_progress"
    /\ LET res == scrape_document(tasks[t].url, fetched, parsed)
           job == jobs[tasks[t].job_id]
       IN
       /\ CASE res.kind = "exception" ->
                 /\ jobs' = SetJob(tasks[t].job_id, task_except(job, res.error).job)
                 /\ taskLog' = TaskLog(tasks[t].job_id, res,
                                       task_except(job, res.error).raised)
                 /\ UNCHANGED <<documents, parts>>
            [] res.kind = "none" ->
                 /\ jobs' = SetJob(tasks[t].job_id, task_no_document(job).job)
                 /\ taskLog' = TaskLog(tasks[t].job_id, res,
                                       task_no_document(job).raised)
                 /\ UNCHANGED <<documents, parts>>
            [] res.kind = "document" ->
                 LET existing == DocsByUrl(res.doc.source_url) IN
                 IF existing # {}
                 THEN /\ jobs' = SetJob(tasks[t].job_id,
                                    mark_completed(job, CHOOSE d \in existing : TRUE))
                      /\ taskLog' = TaskLog(tasks[t].job_id, Saved, FALSE)
                      /\ UNCHANGED <<documents, parts>>
                 ELSE IF ~CitationUnique(res.doc.canonical_citation)
                 THEN \* IntegrityError at the flush of _save_document
                      /\ jobs' = SetJob(tasks[t].job_id,
                                        task_except(job, IntegrityText).job)
                      /\ taskLog' = TaskLog(tasks[t].job_id, Raised(IntegrityText),
                                            task_except(job, IntegrityText).raised)
                      /\ UNCHANGED <<documents, parts>>
                 ELSE LET tx == save_document(res.doc, persist) IN
                      /\ documents' = tx.documents
                      /\ parts' = tx.parts
                      /\ IF tx.ok
                         THEN /\ jobs' = SetJob(tasks[t].job_id,
                                         mark_completed(job, Len(documents) + 1))
                              /\ taskLog' = TaskLog(tasks[t].job_id, Saved, FALSE)
                         ELSE /\ jobs' = SetJob(tasks[t].job_id,
                                         task_except(job, IntegrityText).job)
                              /\ taskLog' = TaskLog(tasks[t].job_id,
                                         Raised(IntegrityText),
                                         task_except(job, IntegrityText).raised)
       /\ tasks' = RemoveAt(tasks, t)
    /\ UNCHANGED <<requests, crawlVars, fetch, clients, chunker, parser, vectorStore, embedVars>>

(***************************************************************************)
(* POST /scraper/retry-failed                                              *)
(***************************************************************************)
DefaultLimit == 10

\* Line 458: get_failed_jobs(limit): any `limit` of the FAILED rows, each
\* loaded into the request's session with the values it has now.
retry_failed_jobs_select(q, source, limit, picked) ==
    /\ requests[q].pc = "idle"
    /\ \A p \in 1..(q - 1) : requests[p].pc # "idle"
    /\ picked \subseteq FailedJobs
    /\ Cardinality(picked) = IF Cardinality(FailedJobs) < limit
                             THEN Cardinality(FailedJobs) ELSE limit
    /\ requests' = [requests EXCEPT ![q] =
            [pc |-> "selected", url |-> None, doc_type |-> None, source |-> source,
             failed_jobs |-> {[id |-> j, url |-> jobs[j].url,
                               retry_count |-> jobs[j].retry_count] : j \in picked},
             response |-> NoResponse]]
    /\ UNCHANGED <<jobs, documents, parts, tasks, taskLog, crawlVars, fetch, clients, chunker, parser, vectorStore, embedVars>>

\* The tasks one retry request queues, in the order of its loaded rows.
RECURSIVE RetryTasks(_, _)
RetryTasks(rows, source) ==
    IF rows = {} THEN <<>>
    ELSE LET row == CHOOSE x \in rows : \A y \in rows : x.id <= y.id IN
         <<Task(row.id, row.url, REPUBLIC_ACT,
                IF source = None THEN LAWPHIL ELSE source)>>
         \o RetryTasks(rows \ {row}, source)

\* The row a retry request writes back for a job it loaded as FAILED.
retry_row(job, loaded) ==
    [job EXCEPT !.status = PENDING, !.retry_count = loaded.retry_count + 1]

\* Lines 460-478: every loaded row is set PENDING with its retry counter
\* raised, a task is queued for it, and the transaction commits.
retry_failed_jobs_update(q) ==
    /\ requests[q].pc = "selected"
    /\ LET rows == requests[q].failed_jobs IN
       /\ jobs' = [j \in DOMAIN jobs |->
                     IF \E row \in rows : row.id = j
                     THEN retry_row(jobs[j], CHOOSE row \in rows : row.id = j)
                     ELSE jobs[j]]
       /\ tasks' = tasks \o RetryTasks(rows, requests[q].source)
       /\ requests' = [requests EXCEPT ![q] =
                           [pc |-> "done", url |-> None, doc_type |-> None,
                            source |-> None, failed_jobs |-> {},
                            response |-> Response(200, 0, Cardinality(rows))]]
    /\ UNCHANGED <<documents, parts, taskLog, crawlVars, fetch, clients, chunker, parser, vectorStore, embedVars>>

(***************************************************************************)
(* The job tracker: requests, tasks and retries in any interleaving.       *)
(***************************************************************************)
IdleCrawl == [pc |-> "idle"]
IdleFetch == [pc |-> "idle"]
IdleClients == [max_concurrent_requests |-> 0]
IdleChunker == [pc |-> "idle"]
IdleParser == [pc |-> "idle"]
IdleStore == [pc |-> "idle"]

InitJobs ==
    /\ jobs = <<>>
    /\ documents = <<>>
    /\ parts = {}
    /\ tasks = <<>>
    /\ taskLog = NoTaskLog
    /\ requests = [r \in 1..MaxRequests |-> IdleRequest]
    /\ web = <<>>
    /\ crawl = IdleCrawl
    /\ fetch = IdleFetch
    /\ clients = IdleClients
    /\ chunker = IdleChunker
    /\ parser = IdleParser
    /\ vectorStore = IdleStore
    /\ vectors = <<>>
    /\ embedReqs = <<>>
    /\ writer = 0

ScrapeLookup ==
    \E r \in 1..MaxRequests, request \in ScrapeRequest :
        scrape_document_lookup(r, request)

ScrapeCreate == \E r \in 1..MaxRequests : scrape_document_create(r)

TaskStart == \E t \in DOMAIN tasks : scrape_document_task_start(t)

TaskFinish ==
    \E t \in DOMAIN tasks, fetched \in {"ok", "error"},
       parsed \in {"document", "none"}, persist \in {"ok", "error"} :
        scrape_document_task_finish(t, fetched, parsed, persist)

RetrySelect ==
    \E q \in 1..MaxRequests, source \in {None, SC_ELIBRARY},
       limit \in {1, DefaultLimit}, picked \in SUBSET FailedJobs :
        retry_failed_jobs_select(q, source, limit, picked)

RetryUpdate == \E q \in 1..MaxRequests : retry_failed_jobs_update(q)

NextJobs ==
    \/ ScrapeLookup
    \/ ScrapeCreate
    \/ TaskStart
    \/ TaskFinish
    \/ RetrySelect
    \/ RetryUpdate

SpecJobs == InitJobs /\ [][NextJobs]_vars

(***************************************************************************)
(* The crawl: _crawl_source_task driving BaseScraper.run and               *)
(* LawphilScraper.crawl over the index pages of the requested types.       *)
(***************************************************************************)
\* LAWPHIL_PATHS, in the order of the dict, for the types of the model.
LAWPHIL_PATHS ==
    <<[doc_type |-> ACT, index_url |-> IndexACT],
      [doc_type |-> REPUBLIC_ACT, index_url |-> IndexRA],
      [doc_type |-> EXECUTIVE_ORDER, index_url |-> IndexEO]>>

\* The hrefs of the table "s-menu" of each index page, in page order.
IndexLinks(index_url) ==
    IF index_url = IndexRA
    THEN <<StatuteUrl, Ra2Url, StatuteUrl, PdfUrl, Ra3Url>>
    ELSE IF index_url = IndexACT THEN <<Ra2Url, ExternalUrl>>
    ELSE <<OtherUrl>>

LinkUrls  == {StatuteUrl, Ra2Url, Ra3Url, PdfUrl, OtherUrl, ExternalUrl}
IndexUrls == {IndexACT, IndexRA, IndexEO}

\* get_bytes returns the page: the site serves it, with or without a citation.
Served(u) == web[u] \in {"ok", "no citation"}

\* BaseScraper._get_deep_links, for the list of types a CrawlRequest carries
\* (document_types is required, so the task never passes None).
get_deep_links(target_document_types) ==
    SelectSeq(LAWPHIL_PATHS, LAMBDA e : e.doc_type \in target_document_types)

\* A crawl that does not catch the failure of a linked page: it ends the
\* loop over the index page's links.
crawl_fetch_uncaught(c) == [c EXCEPT !.links = <<>>]

\* The crawl once the fetch of a linked page has failed: LawphilScraper.crawl
\* catches the exception and goes on with the next link.
crawl_fetch_failed(c) == [c EXCEPT !.links = Tail(@)]

\* The crawl once the fetch of an index page has failed: BaseScraper.run
\* catches the exception and goes on with the next index page.
run_index_failed(c) == [c EXCEPT !.deep_links = Tail(@)]

\* A document type LAWPHIL_PATHS has no entry for.
CONSTITUTION == "Constitution"

\* The document types a CrawlRequest can carry in the model.
RequestedTypes == DocumentType \cup {CONSTITUTION}

\* `set(scraper.urls.keys())`, crawl_source line 314.
available_types == {LAWPHIL_PATHS[k].doc_type : k \in 1..Len(LAWPHIL_PATHS)}

\* A crawl_source that checks nothing: every request is handed to the task.
unsupported_unchecked(document_types) == {}

\* crawl_source, lines 315-316: the requested types the source has no index
\* page for.
unsupported(document_types) == document_types \ available_types

\* The coroutine of a crawl request before anything has run for it.
NewCrawl(target_document_types) ==
    [pc |-> "index", status_code |-> 200,
     documents_before |-> Len(documents),
     target_document_types |-> target_document_types,
     deep_links |-> get_deep_links(target_document_types),
     links |-> <<>>, doc_type |-> None, visited_links |-> {},
     documents_scraped |-> 0, errors |-> 0,
     attempted |-> {}, handed |-> {}, yielded |-> {},
     raised |-> FALSE]

\* POST /scraper/crawl for the source LAWPHIL, lines 305-338. A scraper is
\* built to read its URL registry (building it opens no connection). A
\* request with an unsupported type is answered 400 and no task is queued;
\* otherwise the task is queued, lines 134-147 and run's prologue. Every task
\* builds a new scraper, with an empty visited_links; a crawl can be requested
\* again once the one before has ended.
crawl_source_task_start(target_document_types) ==
    /\ crawl.pc \in {"idle", "done", "rejected"}
    /\ IF unsupported(target_document_types) # {}
       THEN crawl' = [NewCrawl(target_document_types) EXCEPT
                         !.pc = "rejected", !.status_code = 400,
                         !.deep_links = <<>>]
       ELSE crawl' = NewCrawl(target_document_types)
    /\ UNCHANGED <<jobs, documents, parts, tasks, taskLog, requests, web, fetch, clients, chunker, parser, vectorStore, embedVars>>

\* BaseScraper.run, lines 82-88 and 102-106: the next index page is fetched;
\* after the last one the client is closed and the task returns.
run_index ==
    /\ crawl.pc = "index"
    /\ IF crawl.deep_links = <<>>
       THEN crawl' = [crawl EXCEPT !.pc = "done"]
       ELSE LET e == Head(crawl.deep_links)
                c == [crawl EXCEPT !.attempted = @ \cup {e.index_url}]
            IN
            IF ~Served(e.index_url)
            THEN crawl' = run_index_failed(c)
            ELSE crawl' = [c EXCEPT !.pc = "links", !.deep_links = Tail(@),
                                    !.doc_type = e.doc_type,
                                    !.links = IndexLinks(e.index_url)]
    /\ UNCHANGED <<jobs, documents, parts, tasks, taskLog, requests, web, fetch, clients, chunker, parser, vectorStore, embedVars>>

\* _crawl_source_task, lines 148-183: one yielded document is saved with a
\* COMPLETED job in one transaction; a failure rolls back and is counted.
crawl_save(c, scraped_doc) ==
    IF LAWPHIL \notin SeededSources \/ DocsByUrl(scraped_doc.source_url) # {}
    THEN [crawl |-> c, jobs |-> jobs, documents |-> documents, parts |-> parts]
    ELSE IF \/ ~CitationUnique(scraped_doc.canonical_citation)
            \/ ~JobUrlUnique(scraped_doc.source_url)
    THEN [crawl |-> [c EXCEPT !.errors = @ + 1], jobs |-> jobs,
          documents |-> documents, parts |-> parts]
    ELSE [crawl |-> [c EXCEPT !.documents_scraped = @ + 1],
          jobs |-> Append(jobs, ScrapeJob(LAWPHIL, scraped_doc.source_url,
                                          COMPLETED, Len(documents) + 1)),
          documents |-> save_document(scraped_doc, "ok").documents,
          parts |-> save_document(scraped_doc, "ok").parts]

\* BaseScraper.run, lines 90-100: a URL that LawphilScraper.crawl yielded.
run_yielded(c, doc_url) ==
    IF doc_url \in c.visited_links
    THEN [crawl |-> c, jobs |-> jobs, documents |-> documents, parts |-> parts]
    ELSE LET res == scrape_document(doc_url,
                        IF Served(doc_url) THEN "ok" ELSE "error",
                        IF web[doc_url] = "ok" THEN "document" ELSE "none")
             h == [c EXCEPT !.handed = @ \cup {doc_url},
                            !.attempted = @ \cup {doc_url}]
         IN IF res.kind = "document"
            THEN crawl_save([h EXCEPT !.yielded = @ \cup {doc_url}], res.doc)
            ELSE [crawl |-> h, jobs |-> jobs, documents |-> documents, parts |-> parts]

\* LawphilScraper.crawl, lines 45-60, with BaseScraper._extract_urls: the
\* next link of the index page, and what run does with it when it is yielded.
run_link ==
    /\ crawl.pc = "links"
    /\ IF crawl.links = <<>>
       THEN /\ crawl' = [crawl EXCEPT !.pc = "index"]
            /\ UNCHANGED <<jobs, documents, parts>>
       ELSE LET statute == Head(crawl.links) IN
            IF statute \in crawl.visited_links
            THEN /\ crawl' = [crawl EXCEPT !.links = Tail(@)]
                 /\ UNCHANGED <<jobs, documents, parts>>
            ELSE LET c == [crawl EXCEPT !.attempted = @ \cup {statute}] IN
                 IF ~Served(statute)
                 THEN /\ crawl' = crawl_fetch_failed(c)
                      /\ UNCHANGED <<jobs, documents, parts>>
                 ELSE IF IsPdfUrl(statute)
                 THEN /\ crawl' = [c EXCEPT !.links = Tail(@)]
                      /\ UNCHANGED <<jobs, documents, parts>>
                 ELSE LET out == run_yielded(
                                   [c EXCEPT !.links = Tail(@),
                                             !.visited_links = @ \cup {statute}],
                                   statute)
                      IN /\ crawl' = out.crawl
                         /\ jobs' = out.jobs
                         /\ documents' = out.documents
                         /\ parts' = out.parts
    /\ UNCHANGED <<tasks, taskLog, requests, web, fetch, clients, chunker, parser, vectorStore, embedVars>>

\* What the site answers: every page either is served or answers 404, and a
\* served linked page may carry no citation.
WebStates ==
    {w \in [IndexUrls \cup LinkUrls -> {"ok", "404", "no citation"}] :
        \A u \in IndexUrls \cup {PdfUrl, OtherUrl, ExternalUrl} : w[u] # "no citation"}

\* What the store holds when a crawl is requested: nothing, or the document
\* of StatuteUrl with its parts and its COMPLETED job, as a single-URL scrape
\* leaves them.
ScrapedBefore ==
    [jobs |-> <<mark_completed(ScrapeJob(LAWPHIL, StatuteUrl, IN_PROGRESS, None), 1)>>,
     documents |-> <<Document([source_url |-> StatuteUrl,
                               canonical_citation |-> CitationOf(StatuteUrl)])>>,
     parts |-> DocumentParts(PartsOf(StatuteUrl), 1)]
EmptyStore == [jobs |-> <<>>, documents |-> <<>>, parts |-> {}]

InitCrawl ==
    /\ \E store \in {EmptyStore, ScrapedBefore} :
          /\ jobs = store.jobs
          /\ documents = store.documents
          /\ parts = store.parts
    /\ tasks = <<>>
    /\ taskLog = NoTaskLog
    /\ requests = <<>>
    /\ web \in WebStates
    /\ crawl = IdleCrawl
    /\ fetch = IdleFetch
    /\ clients = IdleClients
    /\ chunker = IdleChunker
    /\ parser = IdleParser
    /\ vectorStore = IdleStore
    /\ vectors = <<>>
    /\ embedReqs = <<>>
    /\ writer = 0

CrawlStart ==
    \E target_document_types \in SUBSET RequestedTypes :
        crawl_source_task_start(target_document_types)

NextCrawl ==
    \/ CrawlStart
    \/ run_index
    \/ run_link

SpecCrawl == InitCrawl /\ [][NextCrawl]_vars

(***************************************************************************)
(* HttpClient.get_bytes: the retry loop of one fetch.                      *)
(***************************************************************************)
RECURSIVE Pow(_, _)
Pow(b, n) == IF n = 0 THEN 1 ELSE b * Pow(b, n - 1)

\* The values the settings give max_retries and retry_backoff_base.
MaxRetriesValues == 0..MaxRetries
BackoffBases == {2, 3}

HTTPStatusError == "HTTPStatusError"
RequestError == "RequestError"
RuntimeError == "RuntimeError"

\* What one attempt can end with: the page, a 4xx or a 5xx answer (both
\* raised by raise_for_status as HTTPStatusError), or a transport error.
Outcomes ==
    {[error |-> "ok", status_code |-> 200],
     [error |-> HTTPStatusError, status_code |-> 404],
     [error |-> HTTPStatusError, status_code |-> 503],
     [error |-> RequestError, status_code |-> 0]}

\* The seconds get_bytes sleeps after the failure of attempt number `attempt`.
backoff(f) == Pow(2, f.attempt)

\* get_bytes is called by a client built from the settings: lines 70-75.
\* An empty range runs no attempt and falls through to the RuntimeError.
get_bytes_start ==
    /\ fetch.pc = "idle"
    /\ \E max_retries \in MaxRetriesValues, retry_backoff_base \in BackoffBases :
         fetch' = [pc |-> IF max_retries = 0 THEN "raised" ELSE "attempt",
                   max_retries |-> max_retries,
                   retry_backoff_base |-> retry_backoff_base,
                   attempt |-> 0, attempts |-> 0,
                   sleeps |-> <<>>, errors |-> <<>>, status_codes |-> <<>>,
                   raised |-> IF max_retries = 0 THEN RuntimeError ELSE None]
    /\ UNCHANGED <<jobs, documents, parts, tasks, taskLog, requests, crawlVars, embedVars, clients, chunker, parser, vectorStore>>

\* One pass of the loop body up to its await: lines 76-91.
get_bytes_attempt ==
    /\ fetch.pc = "attempt"
    /\ \E outcome \in Outcomes :
         LET f == [fetch EXCEPT !.attempts = @ + 1] IN
         IF outcome.error = "ok"
         THEN fetch' = [f EXCEPT !.pc = "returned"]
         ELSE LET g == [f EXCEPT !.errors = Append(@, outcome.error),
                                 !.status_codes = Append(@, outcome.status_code)]
              IN
              IF fetch.attempt = fetch.max_retries - 1
              THEN fetch' = [g EXCEPT !.pc = "raised", !.raised = outcome.error]
              ELSE fetch' = [g EXCEPT !.pc = "sleep"]
    /\ UNCHANGED <<jobs, documents, parts, tasks, taskLog, requests, crawlVars, embedVars, clients, chunker, parser, vectorStore>>

\* asyncio.sleep(2 ** attempt) has returned: lines 84 and 90.
get_bytes_sleep ==
    /\ fetch.pc = "sleep"
    /\ fetch' = [fetch EXCEPT !.pc = "attempt",
                              !.sleeps = Append(@, backoff(fetch)),
                              !.attempt = @ + 1]
    /\ UNCHANGED <<jobs, documents, parts, tasks, taskLog, requests, crawlVars, embedVars, clients, chunker, parser, vectorStore>>

InitFetch ==
    /\ jobs = <<>>
    /\ documents = <<>>
    /\ parts = {}
    /\ tasks = <<>>
    /\ taskLog = NoTaskLog
    /\ requests = <<>>
    /\ web = <<>>
    /\ crawl = IdleCrawl
    /\ fetch = IdleFetch
    /\ clients = IdleClients
    /\ chunker = IdleChunker
    /\ parser = IdleParser
    /\ vectorStore = IdleStore
    /\ vectors = <<>>
    /\ embedReqs = <<>>
    /\ writer = 0

NextFetch ==
    \/ get_bytes_start
    \/ get_bytes_attempt
    \/ get_bytes_sleep

SpecFetch == InitFetch /\ [][NextFetch]_vars

(***************************************************************************)
(* The get_bytes calls of tasks that run at the same time.  Every          *)
(* _scrape_document_task and every _crawl_source_task builds its own       *)
(* scraper, and every scraper its own HttpClient (scrapers/base.py:20-25). *)
(***************************************************************************)
\* The values the settings give max_concurrent_requests and max_retries.
Ceilings == 1..2
ClientRetries == 1..2

IdleCall == [pc |-> "idle", attempt |-> 0]

\* The calls whose request is on the wire: sent and not yet answered.
InFlight == {c \in 1..MaxClients : clients.calls[c].pc = "in_flight"}

\* Lines 68-73: a task calls get_bytes on its client, which starts the
\* client if need be and waits for its own rate limit.
client_get_bytes(c) ==
    /\ clients.calls[c].pc = "idle"
    /\ clients' = [clients EXCEPT !.calls[c].pc = "rate_limit_wait"]
    /\ UNCHANGED <<jobs, documents, parts, tasks, taskLog, requests, crawlVars,
                   fetch, chunker, parser, vectorStore, embedVars>>

\* Line 77: the call sends its request, after the rate limit wait or after
\* a backoff sleep.
client_send(c) ==
    /\ clients.calls[c].pc \in {"rate_limit_wait", "backoff"}
    /\ clients' = [clients EXCEPT !.calls[c].pc = "in_flight"]
    /\ UNCHANGED <<jobs, documents, parts, tasks, taskLog, requests, crawlVars,
                   fetch, chunker, parser, vectorStore, embedVars>>

\* Lines 77-91: the request has ended, with the page or with an error.
client_answer(c) ==
    /\ clients.calls[c].pc = "in_flight"
    /\ \E outcome \in Outcomes :
         LET call == clients.calls[c] IN
         IF outcome.error = "ok"
         THEN clients' = [clients EXCEPT !.calls[c].pc = "returned"]
         ELSE IF call.attempt = clients.max_retries - 1
         THEN clients' = [clients EXCEPT !.calls[c].pc = "raised"]
         ELSE clients' = [clients EXCEPT !.calls[c] =
                             [pc |-> "backoff", attempt |-> call.attempt + 1]]
    /\ UNCHANGED <<jobs, documents, parts, tasks, taskLog, requests, crawlVars,
                   fetch, chunker, parser, vectorStore, embedVars>>

InitClients ==
    /\ jobs = <<>>
    /\ documents = <<>>
    /\ parts = {}
    /\ tasks = <<>>
    /\ taskLog = NoTaskLog
    /\ requests = <<>>
    /\ web = <<>>
    /\ crawl = IdleCrawl
    /\ fetch = IdleFetch
    /\ \E ceiling \in Ceilings, max_retries \in ClientRetries :
          clients = [max_concurrent_requests |-> ceiling,
                     max_retries |-> max_retries,
                     calls |-> [c \in 1..MaxClients |-> IdleCall]]
    /\ chunker = IdleChunker
    /\ parser = IdleParser
    /\ vectorStore = IdleStore
    /\ vectors = <<>>
    /\ embedReqs = <<>>
    /\ writer = 0

ClientGetBytes == \E c \in 1..MaxClients : client_get_bytes(c)
ClientSend == \E c \in 1..MaxClients : client_send(c)
ClientAnswer == \E c \in 1..MaxClients : client_answer(c)

NextClients ==
    \/ ClientGetBytes
    \/ ClientSend
    \/ ClientAnswer

SpecClients == InitClients /\ [][NextClients]_vars

(***************************************************************************)
(* TextChunker (embedder/text_chunker.py).  A text is the sequence of its  *)
(* characters; offsets are Python's, counted from 0, and a range [a, b)    *)
(* holds the characters a..b-1.                                            *)
(***************************************************************************)
\* The characters of the texts: a capital letter, a sentence end, a blank.
Upper == {"A"}
SentenceEnds == {".", "!", "?"}
Whitespace == {" "}
Alphabet == {"A", ".", " "}
Texts == UNION {[1..n -> Alphabet] : n \in 0..MaxTextLen}

\* The values the settings give chunk_size and overlap
\* (config/embedder.py:19-20 has 512 and 200).
ChunkSizes == {2, 4}
Overlaps == {0, 2}

\* Python's text[a:b] and text.strip().
Slice(text, a, b) == SubSeq(text, a + 1, b)

RECURSIVE lstrip(_)
lstrip(text) ==
    IF text # <<>> /\ Head(text) \in Whitespace THEN lstrip(Tail(text)) ELSE text

RECURSIVE rstrip(_)
rstrip(text) ==
    IF text # <<>> /\ text[Len(text)] \in Whitespace
    THEN rstrip(SubSeq(text, 1, Len(text) - 1))
    ELSE text

strip(text) == lstrip(rstrip(text))

\* Line 67: re.sub(r'\s+', ' ', text), every run of whitespace becomes one
\* blank.
RECURSIVE collapse_whitespace(_)
collapse_whitespace(text) ==
    IF text = <<>> THEN <<>>
    ELSE IF Head(text) \in Whitespace
    THEN <<" ">> \o collapse_whitespace(lstrip(text))
    ELSE <<Head(text)>> \o collapse_whitespace(Tail(text))

\* _clean_text, lines 64-70.  Line 69 replaces three or more newlines, and
\* line 67 has left none.
clean_text(text) == strip(collapse_whitespace(text))

\* Line 75: the pattern matches at offset m when a run of whitespace starts
\* there, right after a sentence end, and a capital letter follows the run.
\* The text is a cleaned one, so a run is one blank and the match is
\* [m, m + 1); the pattern's second branch needs a newline and finds none.
IsMatch(text, m) ==
    /\ m >= 1
    /\ m + 2 <= Len(text)
    /\ text[m + 1] \in Whitespace
    /\ text[m] \in SentenceEnds
    /\ text[m + 2] \in Upper

Sentence(text, start, end) ==
    [content |-> strip(Slice(text, start, end)), start |-> start, end |-> end]

\* _split_sentences, lines 72-100: last_end is the end of the last match
\* and m the offset the scan has reached.
RECURSIVE split_sentences_from(_, _, _)
split_sentences_from(text, last_end, m) ==
    IF m >= Len(text)
    THEN IF last_end < Len(text) /\ strip(Slice(text, last_end, Len(text))) # <<>>
         THEN <<Sentence(text, last_end, Len(text))>>
         ELSE <<>>
    ELSE IF IsMatch(text, m)
    THEN (IF strip(Slice(text, last_end, m + 1)) # <<>>
          THEN <<Sentence(text, last_end, m + 1)>>
          ELSE <<>>)
         \o split_sentences_from(text, m + 1, m + 1)
    ELSE split_sentences_from(text, last_end, m + 1)

split_sentences(text) == split_sentences_from(text, 0, 0)

\* _get_overlap_text, lines 157-168.
SpacesFrom(text, overlap_start) ==
    {pos \in overlap_start..(Len(text) - 1) : text[pos + 1] = " "}

Min(S) == CHOOSE x \in S : \A y \in S : x <= y

get_overlap_text(text, target_chars) ==
    IF Len(text) <= target_chars THEN text
    ELSE LET overlap_start == Len(text) - target_chars
             found == SpacesFrom(text, overlap_start)
         IN  IF found # {}
             THEN Slice(text, Min(found) + 1, Len(text))
             ELSE Slice(text, overlap_start, Len(text))

\* Lines 124-126: the sentence fits, the current chunk takes it.
extend_chunk_stale_end(current_chunk, potential_content, sentence) ==
    [current_chunk EXCEPT !.content = strip(potential_content)]

extend_chunk(current_chunk, potential_content, sentence) ==
    [current_chunk EXCEPT !.content = strip(potential_content),
                          !.end = sentence.end]

\* Lines 132-149: the chunk a sentence starts when it does not fit.
new_chunk(self, chunks, sentence) ==
    IF chunks # <<>> /\ self.chunk_overlap > 0
    THEN [content |-> get_overlap_text(chunks[Len(chunks)].content, self.chunk_overlap)
                          \o <<" ">> \o sentence.content,
          start |-> sentence.start,
          end |-> sentence.end]
    ELSE [content |-> sentence.content,
          start |-> sentence.start,
          end |-> sentence.end]

\* _merge_sentences_to_chunks, lines 102-155: the loop of lines 117-149
\* from sentence i on, and lines 151-153 after the last sentence.
RECURSIVE merge_sentences_from(_, _, _, _, _)
merge_sentences_from(self, sentences, i, chunks, current_chunk) ==
    IF i > Len(sentences)
    THEN IF current_chunk.content # <<>> THEN Append(chunks, current_chunk) ELSE chunks
    ELSE LET sentence == sentences[i]
             potential_content ==
                 IF current_chunk.content # <<>>
                 THEN current_chunk.content \o <<" ">> \o sentence.content
                 ELSE sentence.content
         IN  IF Len(potential_content) <= self.chunk_size
             THEN merge_sentences_from(self, sentences, i + 1, chunks,
                      extend_chunk(current_chunk, potential_content, sentence))
             ELSE LET saved == IF current_chunk.content # <<>>
                               THEN Append(chunks, current_chunk)
                               ELSE chunks
                  IN  merge_sentences_from(self, sentences, i + 1, saved,
                          new_chunk(self, saved, sentence))

merge_sentences_to_chunks(self, sentences) ==
    IF sentences = <<>> THEN <<>>
    ELSE merge_sentences_from(self, sentences, 1, <<>>,
             [content |-> <<>>, start |-> sentences[1].start,
              end |-> sentences[1].end])

\* Lines 32-38: the TextChunk of the i-th chunk, numbered from 0.
TextChunk(chunk, i) ==
    [content |-> chunk.content, index |-> i - 1,
     start_char |-> chunk.start, end_char |-> chunk.end]

\* chunk_text, lines 15-40, with the settings self.chunk_size and
\* self.chunk_overlap of lines 12-13.
chunk(self, text) ==
    IF text = <<>> \/ strip(text) = <<>> THEN <<>>
    ELSE LET chunks == merge_sentences_to_chunks(self, split_sentences(clean_text(text)))
         IN  [i \in 1..Len(chunks) |-> TextChunk(chunks[i], i)]

\* A caller hands a text to chunk_text and gets the chunks.
ChunkText ==
    /\ chunker.pc = "input"
    /\ chunker' = [chunker EXCEPT !.pc = "chunked",
                                  !.chunks = chunk(chunker, chunker.text)]
    /\ UNCHANGED <<jobs, documents, parts, tasks, taskLog, requests, crawlVars,
                   fetch, clients, parser, vectorStore, embedVars>>

InitChunk ==
    /\ jobs = <<>>
    /\ documents = <<>>
    /\ parts = {}
    /\ tasks = <<>>
    /\ taskLog = NoTaskLog
    /\ requests = <<>>
    /\ web = <<>>
    /\ crawl = IdleCrawl
    /\ fetch = IdleFetch
    /\ clients = IdleClients
    /\ \E text \in Texts, chunk_size \in ChunkSizes, overlap \in Overlaps :
          chunker = [pc |-> "input", text |-> text, chunk_size |-> chunk_size,
                     chunk_overlap |-> overlap, chunks |-> <<>>]
    /\ parser = IdleParser
    /\ vectorStore = IdleStore
    /\ vectors = <<>>
    /\ embedReqs = <<>>
    /\ writer = 0

NextChunk == ChunkText

SpecChunk == InitChunk /\ [][NextChunk]_vars

(***************************************************************************)
(* LawphilStatuteParser (scrapers/lawphil/parsers/statute_parser.py).      *)
(* The body of a page is the sequence of its elements; an element is what  *)
(* the loop of _extract_body_parts takes it for.  A part keeps the numbers *)
(* of the elements its text comes from, and an Optional is a sequence of   *)
(* at most one part.                                                       *)
(***************************************************************************)
ARTICLE == "ARTICLE"
SECTION == "SECTION"
PARAGRAPH == "PARAGRAPH"

\* Line 283-386: a table, an article header, a section header, a title line
\* of the page's header (_is_header_content), other text, and an element
\* without text or a boilerplate one.
ElementKinds == {"table", "article", "section", "title", "content", "empty"}

ScrapedPart(section_type, content, sort_order) ==
    [section_type |-> section_type, content |-> content,
     sort_order |-> sort_order, children |-> <<>>]

\* Lines 235-238 and 240-242.
next_sort_order(p) == p.sort_counter + 1
keep_sort_counter(p) == p.sort_counter
reset_sort_counter(p) == 0

\* Lines 444-449: a paragraph goes below the current section, else below
\* the current article, else to the top level.
attach(p, part) ==
    IF p.current_section # <<>>
    THEN [p EXCEPT !.current_section[1].children = Append(@, part)]
    ELSE IF p.current_article # <<>>
    THEN [p EXCEPT !.current_article[1].children = Append(@, part)]
    ELSE [p EXCEPT !.parts = Append(@, part)]

\* _flush_content, lines 420-449, with the reset of current_content that
\* follows each of its calls.
flush_content(p) ==
    IF p.current_content = <<>> THEN p
    ELSE [attach(p, ScrapedPart(PARAGRAPH, p.current_content, next_sort_order(p)))
             EXCEPT !.sort_counter = next_sort_order(p),
                    !.current_content = <<>>]

\* Lines 288-304: the content before the table is flushed, then line 299
\* reads SectionType.TABLE, a member enums/section_type.py does not have:
\* AttributeError leaves _extract_body_parts and parse.
extract_table(p, i) ==
    [flush_content(p) EXCEPT !.pc = "raised"]

\* Lines 324-350.
extract_article(p, i) ==
    LET q == flush_content(p)
        closed == IF q.current_section # <<>> /\ q.current_article # <<>>
                  THEN [q EXCEPT !.current_article[1].children =
                                     Append(@, q.current_section[1]),
                                 !.current_section = <<>>]
                  ELSE q
        saved == IF closed.current_article # <<>>
                 THEN [closed EXCEPT !.parts = Append(@, closed.current_article[1])]
                 ELSE closed
    IN  [saved EXCEPT !.passed_header = TRUE,
                      !.current_article =
                          <<ScrapedPart(ARTICLE, <<i>>, next_sort_order(saved))>>,
                      !.sort_counter = next_sort_order(saved),
                      !.current_section = <<>>]

\* Lines 365-369 and 393-397: the current section goes below the current
\* article, else to the top level.
close_section(p) ==
    IF p.current_section = <<>> THEN p
    ELSE IF p.current_article # <<>>
    THEN [p EXCEPT !.current_article[1].children = Append(@, p.current_section[1])]
    ELSE [p EXCEPT !.parts = Append(@, p.current_section[1])]

\* Lines 357-381.
extract_section(p, i) ==
    LET q == close_section(flush_content(p)) IN
    [q EXCEPT !.passed_header = TRUE,
              !.current_section =
                  <<ScrapedPart(SECTION, <<i>>, next_sort_order(q))>>,
              !.sort_counter = next_sort_order(q)]

\* Lines 383-386.
extract_content(p, i, kind) ==
    IF ~p.passed_header /\ kind = "title" THEN p
    ELSE [p EXCEPT !.current_content = Append(@, i)]

\* One turn of the loop of lines 283-386, for element number i.
extract_element(p, i, kind) ==
    IF kind = "empty" THEN p
    ELSE IF kind = "table" THEN extract_table(p, i)
    ELSE IF kind = "article" THEN extract_article(p, i)
    ELSE IF kind = "section" THEN extract_section(p, i)
    ELSE extract_content(p, i, kind)

\* Lines 388-402: after the last element.
extract_body_end(p) ==
    LET q == close_section(flush_content(p)) IN
    IF q.current_article # <<>>
    THEN [q EXCEPT !.parts = Append(@, q.current_article[1])]
    ELSE q

\* Lines 22-65: a new parser.
NewParser ==
    [pc |-> "ready", parses |-> 0, sort_counter |-> 0, document |-> FALSE,
     view |-> <<>>, elements |-> <<>>, parts |-> <<>>, current_article |-> <<>>,
     current_section |-> <<>>, current_content |-> <<>>, passed_header |-> FALSE]

\* parse, lines 67-83 and 271-281: the counter is reset, then the page has
\* a citation or parse returns None.
ParseStart ==
    /\ parser.pc \in {"ready", "returned", "raised", "viewed"}
    /\ parser.parses < MaxParses
    /\ \E statute_info \in BOOLEAN :
         parser' = [NewParser EXCEPT
                       !.pc = IF statute_info THEN "parsing" ELSE "returned",
                       !.parses = parser.parses + 1,
                       !.sort_counter = reset_sort_counter(parser)]
    /\ UNCHANGED <<jobs, documents, parts, tasks, taskLog, requests, crawlVars,
                   fetch, clients, chunker, vectorStore, embedVars>>

ParseElement ==
    /\ parser.pc = "parsing"
    /\ Len(parser.elements) < MaxElements
    /\ \E kind \in ElementKinds :
         parser' = [extract_element(parser, Len(parser.elements) + 1, kind)
                       EXCEPT !.elements = Append(@, kind)]
    /\ UNCHANGED <<jobs, documents, parts, tasks, taskLog, requests, crawlVars,
                   fetch, clients, chunker, vectorStore, embedVars>>

\* Lines 388-402 and 93-112: the document with its parts.
ParseReturn ==
    /\ parser.pc = "parsing"
    /\ parser' = [extract_body_end(parser) EXCEPT !.pc = "returned",
                                                  !.document = TRUE]
    /\ UNCHANGED <<jobs, documents, parts, tasks, taskLog, requests, crawlVars,
                   fetch, clients, chunker, vectorStore, embedVars>>

\* _build_document_parts (api/routers/scraper.py:55-88): the tree as a flat
\* list of rows in pre-order, each with its parent's id; a row's id is its
\* number in the list and parent_id 0 is None.
RECURSIVE build_document_parts(_, _, _)
build_document_parts(scraped_parts, parent_id, id) ==
    IF scraped_parts = <<>> THEN <<>>
    ELSE LET part == Head(scraped_parts)
             doc_part == [id |-> id, parent_id |-> parent_id,
                          section_type |-> part.section_type,
                          content_markdown |-> part.content,
                          content_html |-> <<>>,
                          sort_order |-> part.sort_order]
             children == build_document_parts(part.children, id, id + 1)
         IN  <<doc_part>> \o children
                 \o build_document_parts(Tail(scraped_parts), parent_id,
                                         id + 1 + Len(children))

\* document.parts (models/document.py:49): the rows of the document in the
\* order the database lists them, which no order_by fixes.
Listings(rows) ==
    {[k \in DOMAIN rows |-> rows[f[k]]] :
        f \in {g \in [DOMAIN rows -> DOMAIN rows] :
                  \A k, l \in DOMAIN rows : k # l => g[k] # g[l]}}

BySortOrder(a, b) == a.sort_order < b.sort_order

\* _build_scraped_part and _build_children (api/routers/document.py:95-118):
\* a table takes its markup as content, the children are the rows of the
\* list that name the part as parent, sorted by sort_order.
RECURSIVE build_scraped_part(_, _)
build_scraped_part(part, all_parts) ==
    LET children == SelectSeq(all_parts, LAMBDA row : row.parent_id = part.id) IN
    [section_type |-> part.section_type,
     content |-> IF part.section_type = "table" THEN part.content_html
                 ELSE part.content_markdown,
     sort_order |-> part.sort_order,
     children |-> SortSeq([k \in DOMAIN children |->
                              build_scraped_part(children[k], all_parts)],
                          BySortOrder)]

\* get_document lines 63-70: the root parts, in the order of the list.
build_scraped_parts(all_parts) ==
    LET roots == SelectSeq(all_parts, LAMBDA row : row.parent_id = 0) IN
    [k \in DOMAIN roots |-> build_scraped_part(roots[k], all_parts)]

\* MarkdownTransformer._transform_part and the loop of transform
\* (transformers/markdown_transformer.py:45-47, 56-133): the lines of a part
\* at its depth, then those of its children.
RECURSIVE transform_parts(_, _)
transform_parts(tree, depth) ==
    IF tree = <<>> THEN <<>>
    ELSE <<[section_type |-> Head(tree).section_type,
            content |-> Head(tree).content, depth |-> depth]>>
         \o transform_parts(Head(tree).children, depth + 1)
         \o transform_parts(Tail(tree), depth)

\* _save_document (api/routers/scraper.py:116-119) has stored the parts of
\* the parsed document; GET /documents/{id} (api/routers/document.py:52-92)
\* reads them in some order and rebuilds the content.
GetDocument ==
    /\ parser.pc = "returned"
    /\ parser.document
    /\ \E all_parts \in Listings(build_document_parts(parser.parts, 0, 1)) :
         parser' = [parser EXCEPT
                       !.pc = "viewed",
                       !.view = transform_parts(build_scraped_parts(all_parts), 0)]
    /\ UNCHANGED <<jobs, documents, parts, tasks, taskLog, requests, crawlVars,
                   fetch, clients, chunker, vectorStore, embedVars>>

InitParse ==
    /\ jobs = <<>>
    /\ documents = <<>>
    /\ parts = {}
    /\ tasks = <<>>
    /\ taskLog = NoTaskLog
    /\ requests = <<>>
    /\ web = <<>>
    /\ crawl = IdleCrawl
    /\ fetch = IdleFetch
    /\ clients = IdleClients
    /\ chunker = IdleChunker
    /\ parser = NewParser
    /\ vectorStore = IdleStore
    /\ vectors = <<>>
    /\ embedReqs = <<>>
    /\ writer = 0

NextParse ==
    \/ ParseStart
    \/ ParseElement
    \/ ParseReturn
    \/ GetDocument

SpecParse == InitParse /\ [][NextParse]_vars

(***************************************************************************)
(* The embeddings of table document_vectors: what is stored               *)
(* (services/embed.py, models/vector.py) and what a search returns         *)
(* (storage/repositories/vector.py).                                       *)
(***************************************************************************)
\* api/api.py:51-54: the dimension of the provider the application started
\* with, which the column type F32_BLOB(dim) is made with.
Dimensions == {2}

\* What an embedder returns: unit vectors of the configured dimension, and
\* a vector of another length.
UnitVectors == {<<1, 0>>, <<0, 1>>, <<-1, 0>>}
Embeddings == UnitVectors \cup {<<1>>}
StoredDocuments == 1..2

\* 1 - vector_distance_cos(a, b): the cosine of unit vectors is their dot
\* product; in hundredths.
RECURSIVE Dot(_, _)
Dot(a, b) == IF a = <<>> THEN 0 ELSE Head(a) * Head(b) + Dot(Tail(a), Tail(b))
Similarity(a, b) == 100 * Dot(a, b)

\* SearchRequest (api/schemas/embedding.py:53-58): limit is any int and
\* threshold any float; document_id 0 is None.
Limits == {-1, 0, 2}
Thresholds == {0, 70}
DocumentFilters == 0..1

NoCall == [op |-> "none", status |-> 0, error |-> "", embedding |-> <<>>,
           limit |-> 0, threshold |-> 0, document_id |-> 0, results |-> <<>>]

\* models/types/vector.py:34-44: bind_processor hands the list to the
\* database as JSON, whatever its length.
bind_processor(value) == value

\* embed_document_by_id lines 133-146 and embed_document lines 107-117: the
\* vector of a chunk is added and committed.  No statement compares its
\* length with the dimension; the database engine takes the row or refuses
\* it, and a refusal is the driver's error, answered as 500.
store_vector(document_id, embedding, accepted) ==
    IF Len(embedding) = vectorStore.dim \/ accepted
    THEN [vectorStore EXCEPT
             !.rows = Append(@, [document_id |-> document_id,
                                 embedding |-> bind_processor(embedding)]),
             !.last = [NoCall EXCEPT !.op = "store", !.status = 200,
                                     !.embedding = embedding,
                                     !.document_id = document_id]]
    ELSE [vectorStore EXCEPT
             !.last = [NoCall EXCEPT !.op = "store", !.status = 500,
                                     !.error = "DatabaseError",
                                     !.embedding = embedding,
                                     !.document_id = document_id]]

\* search_similar lines 84-115: the WHERE clause.
Matching(query_embedding, threshold, document_id) ==
    {i \in DOMAIN vectorStore.rows :
        /\ document_id # 0 => vectorStore.rows[i].document_id = document_id
        /\ Similarity(vectorStore.rows[i].embedding, query_embedding) >= threshold}

\* ORDER BY similarity DESC: the rows in any order that has no row before
\* one of higher similarity.
Ordered(S, query_embedding) ==
    {f \in [1..Cardinality(S) -> S] :
        /\ \A k, l \in 1..Cardinality(S) : k # l => f[k] # f[l]
        /\ \A k, l \in 1..Cardinality(S) :
               k < l => Similarity(vectorStore.rows[f[k]].embedding, query_embedding)
                           >= Similarity(vectorStore.rows[f[l]].embedding, query_embedding)}

\* LIMIT :limit, which SQLite takes as no bound when it is negative.
Limit(order, limit) ==
    IF limit < 0 \/ limit >= Len(order) THEN order ELSE SubSeq(order, 1, limit)

\* Lines 120-130: the dicts of the rows.
SearchResults(order, query_embedding) ==
    [k \in DOMAIN order |->
        [row |-> order[k],
         document_id |-> vectorStore.rows[order[k]].document_id,
         similarity |-> Similarity(vectorStore.rows[order[k]].embedding, query_embedding)]]

\* The rows the query computes the distance of; a row whose vector has
\* another length than the query's makes vector_distance_cos fail.
Scanned(document_id) ==
    {i \in DOMAIN vectorStore.rows :
        document_id # 0 => vectorStore.rows[i].document_id = document_id}

\* VectorRepository.search_similar, lines 73-130, and the endpoint's
\* handler (embedding.py:126-150).
search_similar(query_embedding, limit, threshold, document_id, order) ==
    LET call == [NoCall EXCEPT !.op = "search", !.embedding = query_embedding,
                               !.limit = limit, !.threshold = threshold,
                               !.document_id = document_id]
    IN  IF \E i \in Scanned(document_id) :
               Len(vectorStore.rows[i].embedding) # Len(query_embedding)
        THEN [vectorStore EXCEPT !.last = [call EXCEPT !.status = 500,
                                                 !.error = "DatabaseError"]]
        ELSE [vectorStore EXCEPT !.last =
                 [call EXCEPT !.status = 200,
                              !.results = SearchResults(Limit(order, limit),
                                                        query_embedding)]]

StoreVector ==
    /\ vectorStore.pc = "open"
    /\ Len(vectorStore.rows) < MaxRows
    /\ \E document_id \in StoredDocuments, embedding \in Embeddings,
          accepted \in BOOLEAN :
         vectorStore' = store_vector(document_id, embedding, accepted)
    /\ UNCHANGED <<jobs, documents, parts, tasks, taskLog, requests, crawlVars,
                   fetch, clients, chunker, parser, embedVars>>

SearchSimilar ==
    /\ vectorStore.pc = "open"
    /\ \E query_embedding \in UnitVectors, limit \in Limits,
          threshold \in Thresholds, document_id \in DocumentFilters :
         \E order \in Ordered(Matching(query_embedding, threshold, document_id),
                              query_embedding) :
            vectorStore' = search_similar(query_embedding, limit, threshold,
                                    document_id, order)
    /\ UNCHANGED <<jobs, documents, parts, tasks, taskLog, requests, crawlVars,
                   fetch, clients, chunker, parser, embedVars>>

InitStore ==
    /\ jobs = <<>>
    /\ documents = <<>>
    /\ parts = {}
    /\ tasks = <<>>
    /\ taskLog = NoTaskLog
    /\ requests = <<>>
    /\ web = <<>>
    /\ crawl = IdleCrawl
    /\ fetch = IdleFetch
    /\ clients = IdleClients
    /\ chunker = IdleChunker
    /\ parser = IdleParser
    /\ \E dim \in Dimensions :
          vectorStore = [pc |-> "open", dim |-> dim, rows |-> <<>>, last |-> NoCall]
    /\ vectors = <<>>
    /\ embedReqs = <<>>
    /\ writer = 0

NextStore ==
    \/ StoreVector
    \/ SearchSimilar

SpecStore == InitStore /\ [][NextStore]_vars

(***************************************************************************)
(* POST /embeddings/document and DELETE /embeddings/document/{id}.         *)
(* A request's session writes inside one transaction; the first statement  *)
(* that writes takes the database's write lock, commit or rollback frees   *)
(* it, and other sessions read the committed rows only.                    *)
(***************************************************************************)
\* Rows of table documents: 1 and 2 have content, 3 has none; 4 is no row.
DocumentIds == 1..3
RequestedIds == 1..4
HasContent(d) == d \in 1..2

\* TextChunker.chunk_text: the indexes of the chunks of a document's content,
\* numbered from 0 by enumerate.
chunk_text(d) == IF d = 1 THEN 0..1 ELSE IF d = 2 THEN 0..0 ELSE {}
ChunkIndexes == 0..1

\* The rows of one document, as the number of rows of each chunk index.
NoVectors == [i \in ChunkIndexes |-> 0]
NewVectors(d) == [i \in ChunkIndexes |-> IF i \in chunk_text(d) THEN 1 ELSE 0]
RowCount(v) == v[0] + v[1]

IdleEmbed == [pc |-> "idle", document_id |-> 0, force |-> FALSE,
              deleted |-> FALSE, status |-> 0, chunks_created |-> 0,
              rolled_back |-> FALSE]

\* VectorRepository.get_by_document inside request r's session: the
\* committed rows, less the ones its own transaction has deleted.
get_by_document(r, d) ==
    IF embedReqs[r].deleted THEN NoVectors ELSE vectors[d]

EmbedAnswered(status, chunks_created) ==
    [IdleEmbed EXCEPT !.status = status, !.chunks_created = chunks_created]

\* embed_document, lines 76-99: the document is looked up, its vectors are
\* read and, with force, deleted; a document without content answers 400,
\* and the session's rollback frees the lock.
embed_document(r) ==
    /\ embedReqs[r].pc = "idle"
    /\ \E document_id \in RequestedIds, force \in BOOLEAN :
         IF document_id \notin DocumentIds
         THEN /\ embedReqs' = [embedReqs EXCEPT ![r] = EmbedAnswered(404, 0)]
              /\ UNCHANGED writer
         ELSE LET existing == vectors[document_id] IN
              IF existing # NoVectors /\ ~force
              THEN /\ embedReqs' = [embedReqs EXCEPT ![r] =
                                       EmbedAnswered(200, RowCount(existing))]
                   /\ UNCHANGED writer
              ELSE /\ existing # NoVectors => writer = 0
                   /\ IF ~HasContent(document_id)
                      THEN /\ embedReqs' = [embedReqs EXCEPT ![r] = EmbedAnswered(400, 0)]
                           /\ UNCHANGED writer
                      ELSE /\ embedReqs' = [embedReqs EXCEPT ![r] =
                                  [pc |-> "service", document_id |-> document_id,
                                   force |-> force,
                                   deleted |-> existing # NoVectors,
                                   status |-> 0, chunks_created |-> 0,
                                   rolled_back |-> FALSE]]
                           /\ writer' = IF existing # NoVectors THEN r ELSE writer
    /\ UNCHANGED <<jobs, documents, parts, tasks, taskLog, requests, crawlVars, fetch, clients, chunker, parser, vectorStore, vectors>>

\* EmbedService.embed_document_by_id, lines 111-128, called with force=True:
\* the vectors are read again and deleted if there are any, the content is
\* chunked and the chunks are sent to the embedder.
embed_document_by_id(r) ==
    /\ embedReqs[r].pc = "service"
    /\ LET d == embedReqs[r].document_id
           existing == get_by_document(r, d)
       IN /\ existing # NoVectors => writer = 0
          /\ writer' = IF existing # NoVectors THEN r ELSE writer
          /\ embedReqs' = [embedReqs EXCEPT ![r].pc = "embedding",
                                            ![r].deleted = @ \/ existing # NoVectors]
    /\ UNCHANGED <<jobs, documents, parts, tasks, taskLog, requests, crawlVars, fetch, clients, chunker, parser, vectorStore, vectors>>

\* The commit of request r's transaction: its delete and its inserts.
commit_vectors(r, d) ==
    [i \in ChunkIndexes |->
        (IF embedReqs[r].deleted THEN 0 ELSE vectors[d][i]) + NewVectors(d)[i]]

\* embed_batch has returned: embed_document_by_id lines 130-146 add one row
\* per chunk, and embed_document lines 107-113 commit and answer.
embed_document_commit(r) ==
    /\ embedReqs[r].pc = "embedding"
    /\ writer \in {0, r}
    /\ LET d == embedReqs[r].document_id IN
         /\ vectors' = [vectors EXCEPT ![d] = commit_vectors(r, d)]
         /\ embedReqs' = [embedReqs EXCEPT ![r] =
                             EmbedAnswered(200, Cardinality(chunk_text(d)))]
    /\ writer' = 0
    /\ UNCHANGED <<jobs, documents, parts, tasks, taskLog, requests, crawlVars, fetch, clients, chunker, parser, vectorStore>>

\* The answer 500 of a request whose rollback has undone its delete.
EmbedFailed(r) ==
    [EmbedAnswered(500, 0) EXCEPT !.rolled_back = embedReqs[r].deleted]

\* A handler that answers 500 and lets the session end with a commit: the
\* delete stays.
embed_document_no_rollback(r) ==
    /\ embedReqs[r].pc = "embedding"
    /\ embedReqs' = [embedReqs EXCEPT ![r] = EmbedFailed(r)]
    /\ writer' = IF writer = r THEN 0 ELSE writer
    /\ vectors' = [vectors EXCEPT ![embedReqs[r].document_id] =
                      IF embedReqs[r].deleted THEN NoVectors ELSE @]
    /\ UNCHANGED <<jobs, documents, parts, tasks, taskLog, requests, crawlVars, fetch, clients, chunker, parser, vectorStore>>

\* embed_batch has raised: embed_document lines 114-117 roll back, which
\* undoes the delete and frees the lock, and answer 500 with str(e).
embed_document_rollback(r) ==
    /\ embedReqs[r].pc = "embedding"
    /\ embedReqs' = [embedReqs EXCEPT ![r] = EmbedFailed(r)]
    /\ writer' = IF writer = r THEN 0 ELSE writer
    /\ UNCHANGED <<jobs, documents, parts, tasks, taskLog, requests, crawlVars, fetch, clients, chunker, parser, vectorStore, vectors>>

\* DELETE /embeddings/document/{id}, lines 175-187: delete and commit.
delete_document_vectors(d) ==
    /\ writer = 0
    /\ vectors' = [vectors EXCEPT ![d] = NoVectors]
    /\ UNCHANGED <<jobs, documents, parts, tasks, taskLog, requests, crawlVars, fetch, clients, chunker, parser, vectorStore,
                   embedReqs, writer>>

\* A document is stored without vectors or with the vectors of one embedding.
InitEmbed ==
    /\ jobs = <<>>
    /\ documents = <<>>
    /\ parts = {}
    /\ tasks = <<>>
    /\ taskLog = NoTaskLog
    /\ requests = <<>>
    /\ web = <<>>
    /\ crawl = IdleCrawl
    /\ fetch = IdleFetch
    /\ clients = IdleClients
    /\ chunker = IdleChunker
    /\ parser = IdleParser
    /\ vectorStore = IdleStore
    /\ vectors \in {v \in [DocumentIds -> {NoVectors} \cup {NewVectors(d) : d \in DocumentIds}] :
                       \A d \in DocumentIds : v[d] \in {NoVectors, NewVectors(d)}}
    /\ embedReqs = [r \in 1..MaxEmbedRequests |-> IdleEmbed]
    /\ writer = 0

EmbedDocument == \E r \in 1..MaxEmbedRequests : embed_document(r)
EmbedService == \E r \in 1..MaxEmbedRequests : embed_document_by_id(r)
EmbedCommit == \E r \in 1..MaxEmbedRequests : embed_document_commit(r)
EmbedRollback == \E r \in 1..MaxEmbedRequests : embed_document_rollback(r)
DeleteVectors == \E d \in DocumentIds : delete_document_vectors(d)

NextEmbed ==
    \/ EmbedDocument
    \/ EmbedService
    \/ EmbedCommit
    \/ EmbedRollback
    \/ DeleteVectors

SpecEmbed == InitEmbed /\ [][NextEmbed]_vars

(***************************************************************************)
(* Properties of the crawl.                                                *)
(***************************************************************************)
\* The index pages of the requested document types.
RequestedIndexes ==
    {LAWPHIL_PATHS[i].index_url : i \in {k \in DOMAIN LAWPHIL_PATHS :
        LAWPHIL_PATHS[k].doc_type \in crawl.target_document_types}}

\* Those of them that the site served.
ServedIndexes == {x \in RequestedIndexes : Served(x)}

\* The links found on those pages.
LinkedUrls ==
    UNION {{IndexLinks(x)[i] : i \in DOMAIN IndexLinks(x)} : x \in ServedIndexes}

\* The linked pages that are served and are no PDF: the documents to scrape.
LinkedDocuments == {u \in LinkedUrls : Served(u) /\ ~IsPdfUrl(u)}

\* C4: when the crawl has ended, every document linked from a fetched index
\* page was handed to scrape_document, and every such document that parses
\* was yielded.
C4_EveryLinkScraped ==
    crawl.pc = "done" =>
        /\ LinkedDocuments \subseteq crawl.handed
        /\ {u \in LinkedDocuments : web[u] = "ok" /\ IsStatuteUrl(u)}
               \subseteq crawl.yielded

\* C5: when a crawl over an empty store has ended, the documents stored are the m linked
\* documents that fetch and parse, and the f linked URLs that fail are each
\* recorded as a FAILED job and counted as failures.
C5_CrawlCounts ==
    (crawl.pc = "done" /\ crawl.documents_before = 0) =>
        LET m == Cardinality({u \in LinkedDocuments : web[u] = "ok" /\ IsStatuteUrl(u)})
            f == Cardinality({u \in LinkedUrls : ~Served(u)})
        IN /\ Len(documents) = m
           /\ crawl.documents_scraped = m
           /\ Cardinality(FailedJobs) = f
           /\ crawl.errors = f

C14_CompletedUrlSkipped ==
    crawl.pc # "idle" =>
        \A j \in DOMAIN jobs :
            jobs[j].status = COMPLETED =>
                /\ jobs[j].url \notin crawl.attempted
                /\ JobsByUrl(jobs[j].url) = {j}
                /\ Cardinality(DocsByUrl(jobs[j].url)) = 1

\* C15: every URL a crawl fetches or hands to scrape_document lies in the
\* source's own domain.
C15_CrawlStaysInDomain ==
    crawl.pc # "idle" =>
        \A u \in crawl.attempted \cup crawl.handed : InDomain(u)

(***************************************************************************)
(* Properties of the job tracker.                                          *)
(***************************************************************************)
JobEdges ==
    {<<PENDING, IN_PROGRESS>>, <<IN_PROGRESS, COMPLETED>>,
     <<IN_PROGRESS, FAILED>>, <<FAILED, PENDING>>}

\* C1: every job is created PENDING and every change of a job's status is
\* one of PENDING->IN_PROGRESS, IN_PROGRESS->COMPLETED, IN_PROGRESS->FAILED,
\* FAILED->PENDING.
C1_JobStateMachine ==
    [][\A j \in DOMAIN jobs' :
          IF j \in DOMAIN jobs
          THEN \/ jobs'[j].status = jobs[j].status
               \/ <<jobs[j].status, jobs'[j].status>> \in JobEdges
          ELSE jobs'[j].status = PENDING]_vars

ScrapeAnswered(r) == requests[r].pc = "done" /\ requests[r].url # None

\* C2: every scrape request for a URL that is in the database's sources is
\* answered with the id of the one job of that URL, and that URL has one job
\* and at most one task.
C2_SameJobId ==
    \A r \in 1..MaxRequests :
        ScrapeAnswered(r) /\ requests[r].response # HTTP400 =>
            /\ requests[r].response.status = 200
            /\ JobsByUrl(requests[r].url) = {requests[r].response.job_id}
            /\ Cardinality({t \in DOMAIN tasks : tasks[t].url = requests[r].url}) <= 1

FailureTexts == {FetchErrorText, ParseNoneText, ParseFailText}

C8_OneTaskPerUrl ==
    \A t1, t2 \in DOMAIN tasks : t1 # t2 => tasks[t1].url # tasks[t2].url

\* C10: a COMPLETED job keeps its status and its document reference.
C10_CompletedIsFinal ==
    [][\A j \in DOMAIN jobs :
          jobs[j].status = COMPLETED =>
              /\ jobs'[j].status = COMPLETED
              /\ jobs'[j].document_id = jobs[j].document_id]_vars

\* C11: a scrape request for a URL whose job is COMPLETED answers at once
\* with that COMPLETED job, queues no task (so nothing is fetched) and
\* changes no job and no document.
C11_CompletedJobReturned ==
    [][\A r \in 1..MaxRequests, j \in DOMAIN jobs :
          ( /\ requests[r].pc = "idle"
            /\ requests'[r].pc # "idle"
            /\ requests'[r].url = jobs[j].url
            /\ jobs[j].status = COMPLETED )
          => /\ requests'[r].pc = "done"
             /\ requests'[r].response = JobResponse(j, COMPLETED)
             /\ tasks' = tasks
             /\ jobs' = jobs
             /\ documents' = documents]_vars

\* A request has been answered with a job that it found COMPLETED.
C11_Witness ==
    \E r \in 1..MaxRequests :
        /\ requests[r].pc = "done"
        /\ requests[r].response.status = 200
        /\ requests[r].response.job_status = COMPLETED
        /\ jobs[requests[r].response.job_id].url = requests[r].url
        /\ DocsByUrl(requests[r].url) # {}

\* C12: when a scrape task does its work for a URL whose document is
\* already stored, it fetches nothing, stores no document and leaves its job
\* COMPLETED with the stored document as its reference.
C12_StoredDocumentNoOp ==
    [][\A t \in DOMAIN tasks :
          (/\ tasks[t].pc = "in_progress"
           /\ tasks' = RemoveAt(tasks, t)
           /\ taskLog'.job_id = tasks[t].job_id
           /\ DocsByUrl(tasks[t].url) # {})
          => /\ ~TaskFetched(taskLog')
             /\ documents' = documents
             /\ jobs'[tasks[t].job_id].status = COMPLETED
             /\ jobs'[tasks[t].job_id].document_id \in DocsByUrl(tasks[t].url)]_vars

\* C13: the store holds every document with all of its parts and no part
\* without its document, and every COMPLETED job references a stored
\* document of its URL.
C13_NoPartialDocument ==
    /\ \A d \in DOMAIN documents :
           {p \in parts : p.document_id = d}
               = DocumentParts(PartsOf(documents[d].source_url), d)
    /\ \A p \in parts : p.document_id \in DOMAIN documents
    /\ \A j \in DOMAIN jobs :
           jobs[j].status = COMPLETED =>
               /\ jobs[j].document_id \in DOMAIN documents
               /\ documents[jobs[j].document_id].source_url = jobs[j].url

\* The save of a document failed and left nothing in the store, and the
\* retried job then stored the document and is COMPLETED.
C13_Witness ==
    \E j \in DOMAIN jobs :
        /\ jobs[j].status = COMPLETED
        /\ jobs[j].error_message = IntegrityText
        /\ jobs[j].document_id \in DOMAIN documents
        /\ parts # {}

\* C22: a page on which no citation pattern matches gives no document and
\* no exception: the scrape of no task ends with the error of a call on the
\* None that parse returned.
C22_NoCitationReturnsNothing ==
    taskLog.result # Raised(ParseNoneText)

(***************************************************************************)
(* Properties of the fetch.                                                *)
(***************************************************************************)
\* C7: a fetch that raised has made its first attempt and max_retries
\* retries and raises the last error; the wait before the k-th retry is a
\* power of the configured backoff base that grows by one with each retry;
\* a fetch that returned made no attempt after the one that succeeded.
C7_RetriesAndBackoff ==
    fetch.pc # "idle" =>
        /\ fetch.pc = "raised" =>
               /\ fetch.attempts = fetch.max_retries + 1
               /\ fetch.errors # <<>>
               /\ fetch.raised = fetch.errors[Len(fetch.errors)]
        /\ \/ \A k \in DOMAIN fetch.sleeps :
                  fetch.sleeps[k] = Pow(fetch.retry_backoff_base, k - 1)
           \/ \A k \in DOMAIN fetch.sleeps :
                  fetch.sleeps[k] = Pow(fetch.retry_backoff_base, k)
        /\ fetch.pc = "returned" => fetch.attempts = Len(fetch.errors) + 1

\* C16: an attempt that ends with a 4xx answer is the last one of its
\* fetch, and the fetch raises at once instead of waiting for a retry.
C16_ClientErrorNotRetried ==
    fetch.pc # "idle" =>
        \A k \in DOMAIN fetch.status_codes :
            fetch.status_codes[k] \in 400..499 =>
                /\ k = Len(fetch.status_codes)
                /\ fetch.pc = "raised"

\* C17: the requests on the wire at any moment, over all tasks, are at most
\* max_concurrent_requests.
C17_InFlightCeiling ==
    Cardinality(InFlight) <= clients.max_concurrent_requests

(***************************************************************************)
(* Properties of the text chunker.                                         *)
(***************************************************************************)
\* The sentences of the text the chunker was given, and what a non-first
\* chunk has taken over from the chunk before it.
ChunkedSentences == split_sentences(clean_text(chunker.text))
TakenOver(k) ==
    get_overlap_text(chunker.chunks[k - 1].content, chunker.chunk_overlap)
StartsWith(content, prefix) ==
    /\ Len(prefix) <= Len(content)
    /\ SubSeq(content, 1, Len(prefix)) = prefix

\* C18: every chunk is at most chunk_size characters long, unless it is
\* one sentence that is itself longer than chunk_size, whatever the overlap.
C18_ChunkWithinSize ==
    chunker.pc = "chunked" =>
        \A k \in DOMAIN chunker.chunks :
            \/ Len(chunker.chunks[k].content) <= chunker.chunk_size
            \/ \E i \in DOMAIN ChunkedSentences :
                   /\ chunker.chunks[k].content = ChunkedSentences[i].content
                   /\ Len(ChunkedSentences[i].content) > chunker.chunk_size

\* C19: what a non-first chunk takes over from the chunk before it is at
\* most chunk_overlap characters long and starts at the beginning of a word
\* of that chunk.
C19_OverlapAtWordBoundary ==
    (chunker.pc = "chunked" /\ chunker.chunk_overlap > 0) =>
        \A k \in DOMAIN chunker.chunks :
            k > 1 =>
                LET previous == chunker.chunks[k - 1].content
                    first == Len(previous) - Len(TakenOver(k))
                IN  /\ StartsWith(chunker.chunks[k].content, TakenOver(k))
                    /\ Len(TakenOver(k)) <= chunker.chunk_overlap
                    /\ first = 0 \/ previous[first] \in Whitespace

\* C20: the ranges of the chunks of a text that is not blank follow one
\* another in index order from 0 to the length of the cleaned text, each
\* range holds what its chunk has besides the overlap, and the ranges put
\* together are the cleaned text.
C20_RangesCoverText ==
    (chunker.pc = "chunked" /\ strip(chunker.text) # <<>>) =>
        LET text == clean_text(chunker.text)
            chunks == chunker.chunks
            own(k) == strip(Slice(text, chunks[k].start_char, chunks[k].end_char))
        IN  /\ chunks # <<>>
            /\ chunks[1].start_char = 0
            /\ chunks[Len(chunks)].end_char = Len(text)
            /\ \A k \in DOMAIN chunks :
                   /\ chunks[k].index = k - 1
                   /\ chunks[k].start_char < chunks[k].end_char
                   /\ k > 1 => chunks[k].start_char = chunks[k - 1].end_char
                   /\ chunks[k].content =
                          IF k > 1 /\ chunker.chunk_overlap > 0
                          THEN TakenOver(k) \o <<" ">> \o own(k)
                          ELSE own(k)
            /\ \A a \in 0..(Len(text) - 1) :
                   \E k \in DOMAIN chunks :
                       /\ chunks[k].start_char <= a
                       /\ a < chunks[k].end_char
                       /\ \A j \in DOMAIN chunks :
                              (chunks[j].start_char <= a /\ a < chunks[j].end_char) => j = k

\* A text with runs of blanks is cut into three chunks or more, with overlap.
C20_Witness ==
    /\ chunker.pc = "chunked"
    /\ chunker.text # clean_text(chunker.text)
    /\ chunker.chunk_overlap > 0
    /\ Len(chunker.chunks) >= 3

(***************************************************************************)
(* Properties of the statute parser.                                       *)
(***************************************************************************)
\* The parts of a tree in pre-order: a part, then its children's trees.
RECURSIVE PreOrder(_)
PreOrder(tree) ==
    IF tree = <<>> THEN <<>>
    ELSE <<Head(tree)>> \o PreOrder(Head(tree).children) \o PreOrder(Tail(tree))

ReturnedParts == PreOrder(parser.parts)

\* C21: the sort orders of the parts of a returned tree, in pre-order, grow
\* strictly, and they are counted from 1 in every parse: none is above the
\* number of elements of its own page.
C21_SortOrderIncreasing ==
    parser.pc = "returned" =>
        /\ \A k \in 1..(Len(ReturnedParts) - 1) :
               ReturnedParts[k].sort_order < ReturnedParts[k + 1].sort_order
        /\ \A k \in DOMAIN ReturnedParts :
               ReturnedParts[k].sort_order \in 1..Len(parser.elements)

\* A second parse returns an article with a paragraph and a section, and
\* a paragraph below the section.
C21_Witness ==
    /\ parser.pc = "returned"
    /\ parser.parses = 2
    /\ parser.elements = <<"article", "content", "section", "content">>
    /\ Len(ReturnedParts) = 4

\* The header elements of the parsed page, and the elements whose text
\* follows header i before any other header.
Headers == {i \in DOMAIN parser.elements : parser.elements[i] \in {"article", "section"}}
Followers(i) ==
    {j \in DOMAIN parser.elements :
        /\ j > i
        /\ parser.elements[j] \in {"title", "content"}
        /\ \A h \in Headers : ~(i < h /\ h < j)}
HeaderType(i) == IF parser.elements[i] = "article" THEN ARTICLE ELSE SECTION
Holds(part, j) == \E c \in DOMAIN part.content : part.content[c] = j

\* C29: every article header and every section header of the body is
\* exactly one ARTICLE or SECTION part of the returned tree, and what
\* followed the header is in a child of that part.
C29_EveryHeaderKept ==
    (parser.pc = "returned" /\ parser.document) =>
        \A i \in Headers :
            /\ Cardinality({k \in DOMAIN ReturnedParts :
                   /\ ReturnedParts[k].section_type = HeaderType(i)
                   /\ ReturnedParts[k].content = <<i>>}) = 1
            /\ \A j \in Followers(i) :
                   \E k \in DOMAIN ReturnedParts :
                       /\ ReturnedParts[k].content = <<i>>
                       /\ \E c \in DOMAIN ReturnedParts[k].children :
                              Holds(ReturnedParts[k].children[c], j)

\* C26: the content rebuilt from the stored parts of a document is the
\* rendering of its parsed tree, each part once and in the tree's order,
\* in whatever order the stored parts are listed.
C26_ViewKeepsOrder ==
    parser.pc = "viewed" => parser.view = transform_parts(parser.parts, 0)

(***************************************************************************)
(* Properties of the vector store.                                         *)
(***************************************************************************)
\* C9: no committed state holds two vectors of one chunk index for a
\* document, or no vector for a document whose re-embedding has deleted its
\* vectors; and once every call has answered, a document that has vectors
\* has exactly one for each of its chunks 0..n-1.
C9_NoZeroOrDuplicateVectors ==
    /\ \A d \in DocumentIds, i \in ChunkIndexes : vectors[d][i] <= 1
    /\ \A r \in 1..MaxEmbedRequests :
           embedReqs[r].deleted => vectors[embedReqs[r].document_id] # NoVectors
    /\ (\A r \in 1..MaxEmbedRequests : embedReqs[r].pc = "idle") =>
           \A d \in DocumentIds : vectors[d] \in {NoVectors, NewVectors(d)}

\* C23: when the embedder fails, the call answers with the error and the
\* committed vectors of every document stay as they are; and while a call
\* has deleted a document's vectors without committing, no other request
\* changes the committed vectors, so they are those of before the call.
C23_ProviderFailureKeepsVectors ==
    [][\A r \in 1..MaxEmbedRequests :
          /\ (embedReqs[r].pc = "embedding" /\ embedReqs'[r].pc = "idle"
                  /\ embedReqs'[r].status # 200)
             => /\ embedReqs'[r].status = 500
                /\ vectors' = vectors
          /\ (embedReqs[r].deleted /\ vectors' # vectors)
             => embedReqs'[r].status = 200]_vars

\* A forced re-embed whose embedder failed has answered 500 after its
\* delete, and the document's vectors are stored.
C23_Witness ==
    \E r \in 1..MaxEmbedRequests :
        /\ embedReqs[r].status = 500
        /\ embedReqs[r].rolled_back
        /\ \E d \in DocumentIds : vectors[d] # NoVectors

(***************************************************************************)
(* Properties of the stored embeddings and of the search.                  *)
(***************************************************************************)
\* C24: every stored vector has the configured dimension, and a store of a
\* vector of another length has failed with an EmbeddingError.
C24_DimensionEnforced ==
    /\ \A i \in DOMAIN vectorStore.rows :
           Len(vectorStore.rows[i].embedding) = vectorStore.dim
    /\ (/\ vectorStore.last.op = "store"
        /\ Len(vectorStore.last.embedding) # vectorStore.dim)
       => /\ vectorStore.last.status = 500
          /\ vectorStore.last.error = "EmbeddingError"

\* C25: the results of a search are in non-increasing order of similarity,
\* each is at the threshold or above and of the filtered document, they are
\* at most limit, and no matching row left out has a higher similarity than
\* a returned one.
C25_SearchOrderedAndCapped ==
    (vectorStore.last.op = "search" /\ vectorStore.last.status = 200) =>
        LET call == vectorStore.last
            results == call.results
            returned == {results[k].row : k \in DOMAIN results}
        IN  /\ \A k \in 1..(Len(results) - 1) :
                   results[k].similarity >= results[k + 1].similarity
            /\ \A k \in DOMAIN results :
                   /\ results[k].similarity >= call.threshold
                   /\ call.document_id # 0 => results[k].document_id = call.document_id
            /\ Len(results) <= call.limit
            /\ \A i \in Matching(call.embedding, call.threshold, call.document_id) :
                   i \notin returned =>
                       \A k \in DOMAIN results :
                           Similarity(vectorStore.rows[i].embedding, call.embedding)
                               <= results[k].similarity

(***************************************************************************)
(* Properties of the crawl request.                                        *)
(***************************************************************************)
\* C27: a crawl request that names a document type the source has no index
\* page for is answered 400 and nothing runs for it: no page is fetched, no
\* link is handed to the scraper and nothing is stored, also when the same
\* request names supported types.
C27_UnsupportedTypeRejected ==
    (crawl.pc # "idle" /\ ~(crawl.target_document_types \subseteq available_types)) =>
        /\ crawl.pc = "rejected"
        /\ crawl.status_code = 400
        /\ crawl.deep_links = <<>>
        /\ crawl.attempted = {}
        /\ crawl.handed = {}
        /\ Len(documents) = crawl.documents_before

\* A request for a supported and an unsupported type has been rejected after
\* a crawl of the supported type alone had run to its end.
C27_Witness ==
    /\ crawl.pc = "rejected"
    /\ crawl.target_document_types = {REPUBLIC_ACT, CONSTITUTION}
    /\ Len(documents) > 0

(***************************************************************************)
(* Properties of the retry counter and of the re-queued task.              *)
(***************************************************************************)
\* C28: a job's retry counter starts at 0 and never decreases; every change
\* of its status into FAILED and every reset FAILED->PENDING raises it by
\* exactly one, no other step changes it by more than that, and a change
\* into FAILED stores the error of that failure on the job.
C28_RetryCounter ==
    [][\A j \in DOMAIN jobs' :
          IF j \notin DOMAIN jobs
          THEN jobs'[j].retry_count = 0
          ELSE /\ jobs'[j].retry_count >= jobs[j].retry_count
               /\ jobs'[j].retry_count <= jobs[j].retry_count + 1
               /\ (jobs[j].status # FAILED /\ jobs'[j].status = FAILED) =>
                      /\ jobs'[j].retry_count = jobs[j].retry_count + 1
                      /\ jobs'[j].error_message # None
                      /\ (taskLog'.job_id = j /\ taskLog'.result.kind = "exception") =>
                             jobs'[j].error_message = taskLog'.result.error
               /\ (jobs[j].status = FAILED /\ jobs'[j].status = PENDING) =>
                      jobs'[j].retry_count = jobs[j].retry_count + 1
               /\ (jobs'[j].status = jobs[j].status /\ jobs[j].status # FAILED) =>
                      jobs'[j].retry_count = jobs[j].retry_count]_vars

\* The document type with which the scrape of a URL is requested.
RequestedType(url) == (CHOOSE request \in ScrapeRequest : request.url = url).doc_type

\* C30: every task queued or running for a job, the ones retry-failed queued
\* included, has the job's URL, the source the job was created for and the
\* document type with which the scrape of that URL was requested.
C30_RetryKeepsRequest ==
    \A t \in DOMAIN tasks :
        /\ tasks[t].url = jobs[tasks[t].job_id].url
        /\ tasks[t].source = jobs[tasks[t].job_id].source_id
        /\ tasks[t].doc_type = RequestedType(tasks[t].url)

====
